---- MODULE Spec2Model ----
(***************************************************************************)
(* Model of the html-keynbutton-response jsPsych plugin (src/src/index.ts).*)
(*                                                                         *)
(* One trial invocation of HtmlKeyAndButtonPlugin.trial is modelled: the   *)
(* rendering, the response handler after_response, the finaliser end_trial *)
(* and the three host timers the plugin schedules.  The host (jsPsych) is  *)
(* modelled by the interface the plugin uses: a clock (performance.now),   *)
(* one-shot timers (pluginAPI.setTimeout), a keyboard listener service     *)
(* (pluginAPI.getKeyboardResponse / cancelKeyboardResponse) and the        *)
(* completion sink (finishTrial), which records what it is handed.  The    *)
(* plugin never cancels a timer, so a scheduled timer stays pending until  *)
(* it fires.                                                               *)
(*                                                                         *)
(* Time is counted in half milliseconds, so that Math.round has something  *)
(* to round.  A nullable value is a sequence of length at most one.        *)
(***************************************************************************)
EXTENDS Integers, Sequences, FiniteSets, TLC

VARIABLES
  trial,               \* the TrialType parameters handed to trial()
  pc,                  \* "idle", "running" after trial(), "error" if it threw,
                       \* "simulated" after a data-only simulation
  now,                 \* performance.now(), in half milliseconds
  display,             \* children of display_element, in document order
  stimulusElement,     \* [responded, visibility] of the stimulus div
  buttonGroupElement,  \* Null or Some(the button group div)
  start_time,          \* Null until line 190 has run
  response,            \* the closure variable response, [rt, key]
  keyboardListener,    \* [defined, registered]
  timers,              \* pending pluginAPI.setTimeout callbacks, [cb, due]
  finished,            \* the trial_data objects handed to jsPsych.finishTrial
  apiCalls,            \* the host API calls made so far, in order
  calls,               \* the infos delivered to after_response, in order
  first_rt,            \* Null, or the rt of the first delivery to after_response
  clicks,              \* number of button clicks delivered
  simulation           \* [mode, data, pressKey] of a call of simulate()

vars == <<trial, pc, now, display, stimulusElement, buttonGroupElement,
          start_time, response, keyboardListener, timers, finished,
          apiCalls, calls, first_rt, clicks, simulation>>

----------------------------------------------------------------------------
(* Bounds *)

MaxDuration == 1
MaxClicks == 2
MaxChoices == 3
MaxGrid == 3

\* the values of performance.now() at which trial() may be called
StartTimes == {0, 1}

\* the clock stops once every timer scheduled at the latest start is due
MaxTime == 1 + 2 * MaxDuration

----------------------------------------------------------------------------
(* Nullable values *)

Null == <<>>
Some(x) == <<x>>
Val(o) == o[1]

----------------------------------------------------------------------------
(* Inputs *)

Stimuli == {"this is html", "foo"}
Keys == {"f", "j", "a"}
ChoiceLists == {<<"f", "j">>}
Choices == {[kind |-> "ALL_KEYS", keys |-> <<>>], [kind |-> "NO_KEYS", keys |-> <<>>]}
             \cup {[kind |-> "list", keys |-> l] : l \in ChoiceLists}
ButtonHtmls == {"default", "wrapped"}
Layouts == {[button_layout |-> "grid", grid_rows |-> Some(1), grid_columns |-> Null],
            [button_layout |-> "grid", grid_rows |-> Null, grid_columns |-> Some(2)],
            [button_layout |-> "grid", grid_rows |-> Null, grid_columns |-> Null],
            [button_layout |-> "flex", grid_rows |-> Some(1), grid_columns |-> Null]}
Prompts == {Null, Some("prompt")}
Durations == {Null} \cup {Some(d) : d \in 1..MaxDuration}
StimulusDurations == {Null, Some(1)}
EnableDelays == {0, 1}

\* lines 12-64: the stimulus of the first test of README.md and the defaults
\* of the parameters that only rendering reads
Plain ==
  [stimulus |-> "this is html", button_html |-> "default", button_layout |-> "grid",
   grid_rows |-> Some(1), grid_columns |-> Null, prompt |-> Null]

\* the parameters that only rendering reads, varied one at a time
Renderings ==
  {[Plain EXCEPT !.stimulus = s] : s \in Stimuli}
  \cup {[Plain EXCEPT !.prompt = p] : p \in Prompts}
  \cup {[Plain EXCEPT !.button_layout = l.button_layout, !.grid_rows = l.grid_rows,
                      !.grid_columns = l.grid_columns] : l \in Layouts}

\* button_html decides which elements the selector of lines 172 and 177
\* matches and which elements lines 232-236 disable, so it varies freely;
\* it and the layout are read only inside the branch of line 135, and a
\* trial that does not take the branch keeps their defaults
TrialTypes ==
  {t \in {[stimulus |-> r.stimulus, choices |-> c, show_button |-> sb,
           button_html |-> bh, button_layout |-> r.button_layout,
           grid_rows |-> r.grid_rows, grid_columns |-> r.grid_columns,
           enable_button_after |-> eba, prompt |-> r.prompt,
           stimulus_duration |-> sd, trial_duration |-> td,
           response_ends_trial |-> ret] :
             r \in Renderings, c \in Choices, sb \in BOOLEAN, bh \in ButtonHtmls,
             eba \in EnableDelays, sd \in StimulusDurations, td \in Durations,
             ret \in BOOLEAN} :
     (t.show_button /\ t.choices.kind = "list")
       \/ /\ t.button_html = Plain.button_html
          /\ t.button_layout = Plain.button_layout
          /\ t.grid_rows = Plain.grid_rows
          /\ t.grid_columns = Plain.grid_columns}

----------------------------------------------------------------------------
(* Pure helpers *)

\* Math.round of a non-negative number of half milliseconds, in milliseconds
Round(h) == (h + 1) \div 2

\* a grid sized with Math.floor
Floor(n, d) == n \div d

\* Math.ceil(n / d) for positive d
Ceil(n, d) == (n + d - 1) \div d

\* line 135
ShowsButtons(t) == t.show_button /\ t.choices.kind = "list"

\* lines 141-145
GridError(t) ==
  ShowsButtons(t) /\ t.button_layout = "grid"
    /\ t.grid_rows = Null /\ t.grid_columns = Null

\* lines 146-149
n_cols(t) ==
  IF t.grid_columns = Null
    THEN Ceil(Len(t.choices.keys), Val(t.grid_rows))
    ELSE Val(t.grid_columns)

\* lines 150-153
n_rows(t) ==
  IF t.grid_rows = Null
    THEN Ceil(Len(t.choices.keys), Val(t.grid_columns))
    ELSE Val(t.grid_rows)

\* a button loop that tags its buttons from one
ButtonChildFromOne(t, i) ==
  [choice |-> ToString(i), key |-> t.choices.keys[i],
   wrapped |-> (t.button_html = "wrapped"), disabled |-> FALSE, inner |-> FALSE]

\* lines 160-167: the child of the button group built for one choice.
\* "default" is the default button_html, a bare <button>; "wrapped" is a
\* button_html that returns
\* <div class="jspsych-html-button-response-button"><button>..</button></div>.
\* disabled is the attribute of the child itself, inner that of the button
\* inside a wrapper.
ButtonChild(t, i) ==
  [choice |-> ToString(i - 1), key |-> t.choices.keys[i],
   wrapped |-> (t.button_html = "wrapped"), disabled |-> FALSE, inner |-> FALSE]

\* lines 137-169
RenderGroup(t) ==
  [class |-> IF t.button_layout = "grid" THEN "jspsych-btn-group-grid"
             ELSE IF t.button_layout = "flex" THEN "jspsych-btn-group-flex"
             ELSE "",
   gridTemplateColumns |-> IF t.button_layout = "grid" THEN Some(n_cols(t)) ELSE Null,
   gridTemplateRows |-> IF t.button_layout = "grid" THEN Some(n_rows(t)) ELSE Null,
   children |-> [i \in 1..Len(t.choices.keys) |-> ButtonChild(t, i)]]

\* document.querySelectorAll(".jspsych-html-button-response-button button")
\* matches the button inside a wrapper of that class, never a bare child
MatchesSelector(child) == child.wrapped

\* lines 172-175
DisableMatched(group) ==
  [group EXCEPT !.children =
     [i \in DOMAIN group.children |->
        IF MatchesSelector(group.children[i])
          THEN [group.children[i] EXCEPT !.inner = TRUE]
          ELSE group.children[i]]]

\* lines 177-180
EnableMatched(group) ==
  [group EXCEPT !.children =
     [i \in DOMAIN group.children |->
        IF MatchesSelector(group.children[i])
          THEN [group.children[i] EXCEPT !.inner = FALSE]
          ELSE group.children[i]]]

\* lines 232-236: setAttribute("disabled") on every child of the group
DisableChildren(group) ==
  [group EXCEPT !.children =
     [i \in DOMAIN group.children |-> [group.children[i] EXCEPT !.disabled = TRUE]]]

\* a click reaches the listener of a child when the button element the
\* participant clicks is not disabled
Clickable(child) ==
  IF child.wrapped THEN ~child.inner ELSE ~child.disabled

\* getKeyboardResponse's valid_responses (line 247)
ValidKey(t, k) ==
  \/ t.choices.kind = "ALL_KEYS"
  \/ t.choices.kind = "list" /\ \E i \in DOMAIN t.choices.keys : t.choices.keys[i] = k

\* a stimulus-hide callback that leaves the element visible
HideNothing(el) == el

\* lines 257-259: the stimulus-hide callback
HideStimulus(el) == [el EXCEPT !.visibility = "hidden"]

\* a handler that lets every response overwrite the record
RecordLast(resp, info) == info

\* lines 222-224
RecordFirst(resp, info) == IF resp.key = Null THEN info ELSE resp

\* a handler that subtracts the wrong way round
StampRtBackwards(resp, end_time, start) ==
  [resp EXCEPT !.rt = Some(Round(start - end_time))]

\* lines 227-228
StampRt(resp, end_time, start) == [resp EXCEPT !.rt = Some(Round(end_time - start))]

\* a result that leaves the stimulus out
TrialDataNoStimulus(t, resp) == [rt |-> resp.rt, stimulus |-> "", response |-> resp.key]

\* lines 205-209
TrialData(t, resp) == [rt |-> resp.rt, stimulus |-> t.stimulus, response |-> resp.key]

\* an end_trial that hands the result over before it cancels the listener
FinishBeforeCancel(kl) ==
  IF kl.defined THEN <<"finishTrial", "cancelKeyboardResponse">> ELSE <<"finishTrial">>

\* lines 200-202 and 212: the host calls end_trial makes
EndTrialCalls(kl) ==
  IF kl.defined THEN <<"cancelKeyboardResponse", "finishTrial">> ELSE <<"finishTrial">>

----------------------------------------------------------------------------
(* Init *)

Init ==
  /\ trial \in TrialTypes
  /\ pc = "idle"
  /\ now = 0
  /\ display = <<>>
  /\ stimulusElement = [responded |-> FALSE, visibility |-> ""]
  /\ buttonGroupElement = Null
  /\ start_time = Null
  /\ response = [rt |-> Null, key |-> Null]
  /\ keyboardListener = [defined |-> FALSE, registered |-> FALSE]
  /\ timers = {}
  /\ finished = <<>>
  /\ apiCalls = <<>>
  /\ calls = <<>>
  /\ first_rt = Null
  /\ clicks = 0
  /\ simulation = [mode |-> "none", data |-> Null, pressKey |-> Null]

----------------------------------------------------------------------------
(* The parts of trial() that arm the host *)

\* a trial() that registers the listener whatever choices is
ArmsAlways(t) == TRUE

\* line 244
ArmsListener(t) == t.choices.kind # "NO_KEYS"

\* line 249: persist: false, the host removes the listener after its
\* first valid key press
Persist == FALSE

\* a trial() that forgets the trial-end timer
NoTrialEndTimer(t, at) ==
  (IF t.enable_button_after > 0
     THEN {[cb |-> "enable_buttons", due |-> at + 2 * t.enable_button_after]} ELSE {})
  \cup (IF t.stimulus_duration # Null
     THEN {[cb |-> "hide_stimulus", due |-> at + 2 * Val(t.stimulus_duration)]} ELSE {})

\* lines 176-181, 256-260 and 265: the timers trial() schedules at time at
ScheduledTimers(t, at) ==
  (IF t.enable_button_after > 0
     THEN {[cb |-> "enable_buttons", due |-> at + 2 * t.enable_button_after]} ELSE {})
  \cup (IF t.stimulus_duration # Null
     THEN {[cb |-> "hide_stimulus", due |-> at + 2 * Val(t.stimulus_duration)]} ELSE {})
  \cup (IF t.trial_duration # Null
     THEN {[cb |-> "end_trial", due |-> at + 2 * Val(t.trial_duration)]} ELSE {})

\* the host calls trial() makes, in program order
TrialCalls(t) ==
  (IF t.enable_button_after > 0 THEN <<"setTimeout:enable_buttons">> ELSE <<>>)
  \o (IF ArmsListener(t) THEN <<"getKeyboardResponse">> ELSE <<>>)
  \o (IF t.stimulus_duration # Null THEN <<"setTimeout:hide_stimulus">> ELSE <<>>)
  \o (IF t.trial_duration # Null THEN <<"setTimeout:end_trial">> ELSE <<>>)

\* lines 127-131, 169, 185-187: what trial() mounts into display_element
Mounted(t) ==
  <<"stimulus">>
  \o (IF ShowsButtons(t) THEN <<"btngroup">> ELSE <<>>)
  \o (IF t.prompt # Null THEN <<"prompt">> ELSE <<>>)

\* lines 134-175: buttonGroupElement as trial() leaves it
InitialGroup(t) ==
  IF ShowsButtons(t)
    THEN Some(IF t.enable_button_after > 0
                THEN DisableMatched(RenderGroup(t)) ELSE RenderGroup(t))
    ELSE Null

\* a handler that never ends the trial on a response
EndsNever(t) == FALSE

\* line 238
EndsOnResponse(t) == t.response_ends_trial

----------------------------------------------------------------------------
(* Handlers *)

\* lines 198-213: end_trial, reading the response resp and the listener kl
end_trial(resp, kl) ==
  /\ keyboardListener' = IF kl.defined THEN [kl EXCEPT !.registered = FALSE] ELSE kl
  /\ finished' = Append(finished, TrialData(trial, resp))
  /\ apiCalls' = apiCalls \o EndTrialCalls(kl)

\* an after_response that keeps the rt its caller passed
after_response_unstamped(info, kl) ==
  LET recorded == RecordFirst(response, info) IN
  /\ stimulusElement' = [stimulusElement EXCEPT !.responded = TRUE]
  /\ response' = recorded
  /\ buttonGroupElement' =
       IF trial.show_button /\ buttonGroupElement # Null
         THEN Some(DisableChildren(Val(buttonGroupElement)))
         ELSE buttonGroupElement
  /\ calls' = Append(calls, info)
  /\ first_rt' = IF calls = <<>> THEN Some(Round(now - Val(start_time))) ELSE first_rt
  /\ IF EndsOnResponse(trial)
       THEN end_trial(recorded, kl)
       ELSE /\ keyboardListener' = kl
            /\ UNCHANGED <<finished, apiCalls>>

\* lines 216-241: after_response; kl is the listener as the host left it
\* when it dispatched the event
after_response(info, kl) ==
  LET recorded == StampRt(RecordFirst(response, info), now, Val(start_time)) IN
  /\ stimulusElement' = [stimulusElement EXCEPT !.responded = TRUE]
  /\ response' = recorded
  /\ buttonGroupElement' =
       IF trial.show_button /\ buttonGroupElement # Null
         THEN Some(DisableChildren(Val(buttonGroupElement)))
         ELSE buttonGroupElement
  /\ calls' = Append(calls, info)
  /\ first_rt' = IF calls = <<>> THEN Some(Round(now - Val(start_time))) ELSE first_rt
  /\ IF EndsOnResponse(trial)
       THEN end_trial(recorded, kl)
       ELSE /\ keyboardListener' = kl
            /\ UNCHANGED <<finished, apiCalls>>

\* a trial() that validates the grid only after it has armed the host
TrialThrowsLate ==
  /\ pc = "idle"
  /\ pc' = IF GridError(trial) THEN "error" ELSE "running"
  /\ display' = IF GridError(trial) THEN <<"stimulus">> ELSE Mounted(trial)
  /\ buttonGroupElement' = IF GridError(trial) THEN Null ELSE InitialGroup(trial)
  /\ start_time' = Some(now)
  /\ keyboardListener' =
       IF ArmsListener(trial)
         THEN [defined |-> TRUE, registered |-> TRUE]
         ELSE keyboardListener
  /\ timers' = ScheduledTimers(trial, now)
  /\ apiCalls' = apiCalls \o TrialCalls(trial)
  /\ UNCHANGED <<trial, now, stimulusElement, response, finished, calls, first_rt,
                 clicks, simulation>>

\* lines 125-267: the body of trial(); the caller makes the host calls
\* before ahead of it and, if it returns, the host calls after
RunTrial(before, after) ==
  /\ pc = "idle"
  /\ IF GridError(trial)
       THEN /\ pc' = "error"
            /\ display' = <<"stimulus">>
            /\ apiCalls' = apiCalls \o before
            /\ UNCHANGED <<buttonGroupElement, start_time, keyboardListener, timers>>
       ELSE /\ pc' = "running"
            /\ display' = Mounted(trial)
            /\ buttonGroupElement' = InitialGroup(trial)
            /\ start_time' = Some(now)
            /\ keyboardListener' =
                 IF ArmsListener(trial)
                   THEN [defined |-> TRUE, registered |-> TRUE]
                   ELSE keyboardListener
            /\ timers' = ScheduledTimers(trial, now)
            /\ apiCalls' = apiCalls \o before \o TrialCalls(trial) \o after
  /\ UNCHANGED <<trial, now, stimulusElement, response, finished, calls, first_rt, clicks>>

\* trial() called by the host for a participant
Trial == RunTrial(<<>>, <<>>) /\ UNCHANGED simulation

\* a trial run for a participant; a simulated trial has no participant, its
\* only input is the key press simulate_visual injects
Participant == simulation.mode = "none"

\* the keyboard listener of lines 245-251 is handed the key k by the host
KeyDown(k) ==
  /\ pc = "running"
  /\ keyboardListener.registered
  /\ ValidKey(trial, k)
  /\ after_response([key |-> Some(k), rt |-> Some(Round(now - Val(start_time)))],
                    [keyboardListener EXCEPT !.registered = Persist])
  /\ UNCHANGED <<trial, pc, now, display, start_time, timers, clicks>>

\* the participant presses a valid key
KeyPress(k) ==
  /\ Participant
  /\ KeyDown(k)
  /\ UNCHANGED simulation

\* lines 164-166: the click listener of the i-th child of the button group
Click(i) ==
  /\ Participant
  /\ pc = "running"
  /\ buttonGroupElement # Null
  /\ i \in DOMAIN Val(buttonGroupElement).children
  /\ Clickable(Val(buttonGroupElement).children[i])
  /\ clicks < MaxClicks
  /\ clicks' = clicks + 1
  /\ after_response([key |-> Some(Val(buttonGroupElement).children[i].key), rt |-> Null],
                    keyboardListener)
  /\ UNCHANGED <<trial, pc, now, display, start_time, timers, simulation>>

\* a pending timer whose delay has elapsed
Due(cb) == {tm \in timers : tm.cb = cb /\ now >= tm.due}

\* lines 176-181
EnableButtonsTimer ==
  /\ pc = "running"
  /\ \E tm \in Due("enable_buttons") : timers' = timers \ {tm}
  /\ buttonGroupElement' =
       IF buttonGroupElement # Null
         THEN Some(EnableMatched(Val(buttonGroupElement)))
         ELSE buttonGroupElement
  /\ UNCHANGED <<trial, pc, now, display, stimulusElement, start_time, response,
                 keyboardListener, finished, apiCalls, calls, first_rt, clicks,
                 simulation>>

\* lines 256-260
HideStimulusTimer ==
  /\ pc = "running"
  /\ \E tm \in Due("hide_stimulus") : timers' = timers \ {tm}
  /\ stimulusElement' = HideStimulus(stimulusElement)
  /\ UNCHANGED <<trial, pc, now, display, buttonGroupElement, start_time, response,
                 keyboardListener, finished, apiCalls, calls, first_rt, clicks,
                 simulation>>

\* line 265
TrialEndTimer ==
  /\ pc = "running"
  /\ \E tm \in Due("end_trial") : timers' = timers \ {tm}
  /\ end_trial(response, keyboardListener)
  /\ UNCHANGED <<trial, pc, now, display, stimulusElement, buttonGroupElement,
                 start_time, response, calls, first_rt, clicks, simulation>>

----------------------------------------------------------------------------
(* simulate() *)

\* line 287: sampleExGaussian(500, 50, 1 / 150, true) returns a positive
\* number, which the host rounds to whole milliseconds: the rts the host
\* can synthesize
SimulatedRts == 0..MaxDuration

\* line 288: getValidKey(trial.choices) returns a key the listener accepts
ValidKeys(t) == {k \in Keys : ValidKey(t, k)}

\* line 293: ensureSimulationDataConsistency nulls rt and response when
\* choices is "NO_KEYS" or when rt exceeds trial_duration
Consistent(t, data) ==
  IF \/ t.choices.kind = "NO_KEYS"
     \/ t.trial_duration # Null /\ Val(data.rt) > Val(t.trial_duration)
    THEN [data EXCEPT !.rt = Null, !.response = Null]
    ELSE data

\* lines 284-296: the data create_simulation_data can return; no
\* simulation_options.data overrides the defaults
SimulationData(t) ==
  {Consistent(t, [stimulus |-> t.stimulus, rt |-> Some(r), response |-> k]) :
     r \in SimulatedRts,
     k \in IF t.choices.kind = "NO_KEYS" THEN {Null} ELSE {Some(k) : k \in ValidKeys(t)}}

\* the host calls of create_simulation_data, in program order
CreateCalls ==
  <<"sampleExGaussian", "getValidKey", "mergeSimulationData",
    "ensureSimulationDataConsistency">>

\* a simulate() that reports readiness only after the result is handed over
SimulateDataOnlyLate ==
  /\ pc = "idle"
  /\ \E data \in SimulationData(trial) :
       /\ simulation' = [mode |-> "data-only", data |-> Some(data), pressKey |-> Null]
       /\ finished' = Append(finished, data)
  /\ pc' = "simulated"
  /\ apiCalls' = apiCalls \o CreateCalls \o <<"finishTrial", "load_callback">>
  /\ UNCHANGED <<trial, now, display, stimulusElement, buttonGroupElement, start_time,
                 response, keyboardListener, timers, calls, first_rt, clicks>>

\* lines 275-278 and 298-302: simulate() in mode "data-only"
SimulateDataOnly ==
  /\ pc = "idle"
  /\ \E data \in SimulationData(trial) :
       /\ simulation' = [mode |-> "data-only", data |-> Some(data), pressKey |-> Null]
       /\ finished' = Append(finished, data)
  /\ pc' = "simulated"
  /\ apiCalls' = apiCalls \o <<"load_callback">> \o CreateCalls \o <<"finishTrial">>
  /\ UNCHANGED <<trial, now, display, stimulusElement, buttonGroupElement, start_time,
                 response, keyboardListener, timers, calls, first_rt, clicks>>

\* line 313: pressKey is called only if the synthesized rt is not null
InjectsKey(data) == data.rt # Null

\* lines 279-281 and 304-315: simulate() in mode "visual"
SimulateVisual ==
  \E data \in SimulationData(trial) :
    /\ RunTrial(CreateCalls \o <<"getDisplayElement">>,
                <<"load_callback">>
                \o (IF InjectsKey(data) THEN <<"pressKey">> ELSE <<>>))
    /\ simulation' =
         [mode |-> "visual", data |-> Some(data),
          pressKey |-> IF ~GridError(trial) /\ InjectsKey(data)
                         THEN Some([key |-> data.response, due |-> now + 2 * Val(data.rt)])
                         ELSE Null]

\* the host dispatches the key press scheduled by pressKey(key, rt): the
\* keyboard listener, if still registered, is handed the key
PressKey ==
  /\ simulation.pressKey # Null
  /\ now >= Val(simulation.pressKey).due
  /\ simulation' = [simulation EXCEPT !.pressKey = Null]
  /\ LET key == Val(simulation.pressKey).key IN
     IF pc = "running" /\ keyboardListener.registered /\ key # Null
          /\ ValidKey(trial, Val(key))
       THEN KeyDown(Val(key))
       ELSE UNCHANGED <<trial, pc, now, display, stimulusElement, buttonGroupElement,
                        start_time, response, keyboardListener, timers, finished,
                        apiCalls, calls, first_rt, clicks>>

\* performance.now() advances; trial() is called at one of StartTimes
Tick ==
  /\ IF pc = "idle" THEN now + 1 \in StartTimes ELSE now < MaxTime
  /\ now' = now + 1
  /\ UNCHANGED <<trial, pc, display, stimulusElement, buttonGroupElement, start_time,
                 response, keyboardListener, timers, finished, apiCalls, calls,
                 first_rt, clicks, simulation>>

Next ==
  \/ Trial
  \/ SimulateDataOnly
  \/ SimulateVisual
  \/ PressKey
  \/ \E k \in Keys : KeyPress(k)
  \/ \E i \in 1..2 : Click(i)
  \/ EnableButtonsTimer
  \/ HideStimulusTimer
  \/ TrialEndTimer
  \/ Tick

Spec == Init /\ [][Next]_vars

\* the button trials over every grid of up to MaxGrid rows or columns and
\* every number of choices up to MaxChoices
GridTrialTypes ==
  {[stimulus |-> Plain.stimulus,
    choices |-> [kind |-> "list", keys |-> SubSeq(<<"f", "j", "a", "s", "d">>, 1, n)],
    show_button |-> TRUE, button_html |-> Plain.button_html,
    button_layout |-> "grid", grid_rows |-> r, grid_columns |-> c,
    enable_button_after |-> 0, prompt |-> Plain.prompt,
    stimulus_duration |-> Null, trial_duration |-> Null,
    response_ends_trial |-> TRUE] :
      n \in 1..MaxChoices,
      r \in {Null} \cup {Some(k) : k \in 1..MaxGrid},
      c \in {Null} \cup {Some(k) : k \in 1..MaxGrid}}

GridInit ==
  /\ trial \in GridTrialTypes
  /\ pc = "idle"
  /\ now = 0
  /\ display = <<>>
  /\ stimulusElement = [responded |-> FALSE, visibility |-> ""]
  /\ buttonGroupElement = Null
  /\ start_time = Null
  /\ response = [rt |-> Null, key |-> Null]
  /\ keyboardListener = [defined |-> FALSE, registered |-> FALSE]
  /\ timers = {}
  /\ finished = <<>>
  /\ apiCalls = <<>>
  /\ calls = <<>>
  /\ first_rt = Null
  /\ clicks = 0
  /\ simulation = [mode |-> "none", data |-> Null, pressKey |-> Null]

\* rendering alone: trial() is called and time passes
GridNext == Trial \/ Tick

GridSpec == GridInit /\ [][GridNext]_vars

\* the trials rendered with the default button_html of lines 36-38
DefaultInit == Init /\ trial.button_html = Plain.button_html

DefaultSpec == DefaultInit /\ [][Next]_vars

\* the trials whose stimulus, prompt and button layout are fixed: none of
\* the three is read after trial() has rendered
PlainTrial(t) ==
  /\ t.stimulus = Plain.stimulus
  /\ t.prompt = Plain.prompt
  /\ t.button_layout = Plain.button_layout
  /\ t.grid_rows = Plain.grid_rows
  /\ t.grid_columns = Plain.grid_columns

FairInit == Init /\ PlainTrial(trial)

\* the clock advances and the host delivers a trial-end timer that is due
FairSpec ==
  /\ FairInit
  /\ [][Next]_vars
  /\ WF_vars(Tick)
  /\ WF_vars(TrialEndTimer)

----------------------------------------------------------------------------
(* Properties *)

\* simulate() ran in mode "data-only": trial() never runs
DataOnly == simulation.mode = "data-only"

Last(s) == s[Len(s)]

\* the step delivers a response event to after_response
Responds == Len(calls') = Len(calls) + 1

\* the step hands a result to finishTrial
Finishes == Len(finished') = Len(finished) + 1

\* the step is the firing of the pending timer with callback cb
Fires(cb) == \E tm \in timers : tm.cb = cb /\ tm \notin timers'

\* every child of the rendered button group carries the disabled attribute
AllButtonsDisabled(g) ==
  g # Null => \A i \in DOMAIN Val(g).children : Val(g).children[i].disabled

(* C1: the completion sink receives a trial result at most once per trial  *)
(* invocation, whatever the order of key presses, clicks and timers.       *)
C1_AtMostOneResult == Len(finished) <= 1

(* C2: first response wins: response.key is null until a response event is *)
(* delivered, and from then on it is the identifier of the first event     *)
(* delivered to after_response, whatever is delivered later.               *)
C2_FirstResponseWins ==
  response.key = (IF calls = <<>> THEN Null ELSE calls[1].key)

C2_Witness ==
  /\ Len(calls) >= 2
  /\ calls[2].key # calls[1].key
  /\ response.key = calls[1].key

(* C3: rt is written only on the transition that sets key: once key is     *)
(* non-null no step changes rt, and every result handed over with a        *)
(* response carries the rt of the first response.                          *)
C3_RtOfFirstResponse ==
  [][/\ response.key # Null => response'.rt = response.rt
     /\ (Finishes /\ calls' # <<>>) => Last(finished').rt = first_rt']_vars

(* C4: when response_ends_trial is true, the step that delivers the first  *)
(* response also hands over a result, whose response is the pressed key or *)
(* the clicked button's choice string and whose rt is non-null, and it     *)
(* consumes no timer.                                                      *)
C4_ResponseEndsTrial ==
  [][(trial.response_ends_trial /\ calls = <<>> /\ Responds) =>
       /\ Finishes
       /\ Last(finished').response = calls'[1].key
       /\ Last(finished').response # Null
       /\ Last(finished').rt # Null
       /\ Last(finished').rt = Some(Round(now - Val(start_time)))
       /\ timers' = timers]_vars

C4_Witness ==
  /\ trial.response_ends_trial
  /\ Len(calls) = 1 /\ calls[1].rt = Null
  /\ Len(finished) = 1
  /\ finished[1].response = Some(trial.choices.keys[2])
  /\ finished[1].rt # Null
  /\ timers # {}

(* C5: when response_ends_trial is false, a response marks the stimulus    *)
(* 'responded' and disables the rendered buttons without handing over a    *)
(* result; only the trial-duration timer hands one over, and it carries    *)
(* the key and the rt of the first response.                               *)
C5_ResponseKeepsTrialOpen ==
  [][~trial.response_ends_trial =>
       /\ Responds => /\ ~Finishes
                      /\ stimulusElement'.responded
                      /\ AllButtonsDisabled(buttonGroupElement')
       /\ Finishes => /\ Fires("end_trial")
                      /\ calls # <<>> =>
                           /\ Last(finished').response = calls[1].key
                           /\ Last(finished').rt = first_rt]_vars

(* C6: when the trial-duration timer fires and no response was accepted,   *)
(* a result is handed over with response null, rt null and the stimulus    *)
(* parameter of the trial.                                                 *)
C6_TimeoutWithoutResponse ==
  [][(Fires("end_trial") /\ response.key = Null) =>
       /\ Finishes
       /\ Last(finished') = [rt |-> Null, stimulus |-> trial.stimulus, response |-> Null]]_vars

C6_Witness ==
  /\ calls = <<>>
  /\ finished = <<[rt |-> Null, stimulus |-> trial.stimulus, response |-> Null]>>
  /\ trial.trial_duration # Null

(* C7: with choices "NO_KEYS" no keyboard listener is registered, no key   *)
(* press changes the response record, and only the trial-duration timer    *)
(* (no button is rendered) hands over a result of trial().                 *)
C7_NoKeys ==
  trial.choices.kind = "NO_KEYS" =>
    /\ ~keyboardListener.defined /\ ~keyboardListener.registered
    /\ \A i \in DOMAIN apiCalls : apiCalls[i] # "getKeyboardResponse"
    /\ calls = <<>>
    /\ response = [rt |-> Null, key |-> Null]
    /\ buttonGroupElement = Null
    /\ (finished # <<>> /\ ~DataOnly) =>
         /\ trial.trial_duration # Null
         /\ \A tm \in timers : tm.cb # "end_trial"

C7_Witness ==
  /\ trial.choices.kind = "NO_KEYS"
  /\ trial.show_button
  /\ pc = "running"
  /\ Len(finished) = 1

(* C8: with a non-null trial_duration a running trial eventually hands    *)
(* over a result, under fair delivery of the trial-end timer, whatever     *)
(* responses were or were not delivered.                                   *)
C8_TimerFinalizes ==
  (pc = "running" /\ trial.trial_duration # Null) ~> (finished # <<>>)

C8_Witness ==
  /\ trial.trial_duration # Null
  /\ ~trial.response_ends_trial
  /\ Len(calls) >= 2
  /\ Len(finished) = 1
  /\ \A tm \in timers : tm.cb # "end_trial"

(* C9: the stimulus is hidden exactly in the states after the stimulus-hide*)
(* timer has fired; a response does not cancel that timer, and its firing  *)
(* leaves the response record, the keyboard listener and the results       *)
(* handed over unchanged.                                                  *)
C9_HideIsCosmetic ==
  /\ [](stimulusElement.visibility = "hidden" <=>
          /\ pc = "running"
          /\ trial.stimulus_duration # Null
          /\ \A tm \in timers : tm.cb # "hide_stimulus")
  /\ [][/\ Fires("hide_stimulus") =>
             /\ response' = response
             /\ keyboardListener' = keyboardListener
             /\ finished' = finished
             /\ calls' = calls
        /\ (trial.stimulus_duration = Null) => stimulusElement'.visibility = ""]_vars

C9_Witness ==
  /\ stimulusElement.visibility = "hidden"
  /\ response.key # Null
  /\ keyboardListener.registered
  /\ finished = <<>>

(* C10: once a result has been handed over, no timer callback, listener    *)
(* callback or click handler changes the display or the response record.   *)
C10_QuietAfterFinalize ==
  [][finished # <<>> =>
       /\ display' = display
       /\ stimulusElement' = stimulusElement
       /\ buttonGroupElement' = buttonGroupElement
       /\ response' = response]_vars

\* the positions of the host call c in the log
CallsOf(c) == {i \in DOMAIN apiCalls : apiCalls[i] = c}

(* C11: end_trial cancels the keyboard listener, if trial() armed one,     *)
(* right before it hands the result over, and after a result was handed    *)
(* over no listener is registered; with choices "NO_KEYS" it cancels       *)
(* nothing and still hands the result over.                                *)
C11_CancelBeforeFinish ==
  ~DataOnly =>
  /\ Cardinality(CallsOf("finishTrial")) = Len(finished)
  /\ finished # <<>> => ~keyboardListener.registered
  /\ IF trial.choices.kind = "NO_KEYS"
       THEN CallsOf("cancelKeyboardResponse") = {}
       ELSE \A i \in CallsOf("finishTrial") :
              i > 1 /\ apiCalls[i - 1] = "cancelKeyboardResponse"

C11_Witness ==
  /\ keyboardListener.defined /\ ~keyboardListener.registered
  /\ calls = <<>>
  /\ Len(finished) = 1
  /\ CallsOf("cancelKeyboardResponse") # {}

(* C12: a trial that renders buttons in grid layout with grid_rows and     *)
(* grid_columns both null throws while rendering: no keyboard listener is  *)
(* registered, no timer is scheduled, no key press is injected and no      *)
(* result is ever handed over.                                             *)
C12_GridErrorIsFatal ==
  (/\ pc \in {"running", "error"}
   /\ trial.show_button /\ trial.choices.kind = "list"
   /\ trial.button_layout = "grid"
   /\ trial.grid_rows = Null /\ trial.grid_columns = Null) =>
    /\ pc = "error"
    /\ ~keyboardListener.defined /\ ~keyboardListener.registered
    /\ timers = {}
    /\ \A i \in DOMAIN apiCalls :
         apiCalls[i] \notin {"getKeyboardResponse", "setTimeout:enable_buttons",
                             "setTimeout:hide_stimulus", "setTimeout:end_trial",
                             "load_callback", "pressKey", "finishTrial"}
    /\ simulation.pressKey = Null
    /\ buttonGroupElement = Null
    /\ calls = <<>>
    /\ finished = <<>>

C12_Witness ==
  /\ pc = "error"
  /\ trial.trial_duration # Null
  /\ trial.stimulus_duration # Null
  /\ now = MaxTime

RtOK(rt) == rt = Null \/ Val(rt) \in Nat

(* C14: every rt, in the response record and in every result handed over,  *)
(* is null or a non-negative integer; start_time is captured once by       *)
(* trial() and never reassigned, and every rt written is the rounded time  *)
(* elapsed since start_time.                                               *)
C14_RtFromOneOnset ==
  /\ [](RtOK(response.rt) /\ \A i \in DOMAIN finished : RtOK(finished[i].rt))
  /\ [][/\ start_time # Null => start_time' = start_time
        /\ Responds => /\ start_time # Null
                       /\ response'.rt = Some(Round(now - Val(start_time)))]_vars

C14_Witness ==
  /\ start_time # Null /\ Val(start_time) > 0
  /\ Len(calls) >= 2
  /\ response.rt # Null /\ Val(response.rt) > 0
  /\ finished # <<>> /\ Last(finished).rt = response.rt

(* C15: a "data-only" simulation calls the ready callback and then hands   *)
(* exactly one synthesized, consistency-checked result to finishTrial; it  *)
(* renders nothing, registers no keyboard listener and schedules no timer. *)
C15_DataOnly ==
  DataOnly =>
    /\ pc = "simulated"
    /\ Len(finished) = 1
    /\ finished[1] = Val(simulation.data)
    /\ finished[1].stimulus = trial.stimulus
    /\ trial.choices.kind = "NO_KEYS" =>
         finished[1].rt = Null /\ finished[1].response = Null
    /\ (finished[1].rt # Null /\ trial.trial_duration # Null) =>
         Val(finished[1].rt) <= Val(trial.trial_duration)
    /\ Cardinality(CallsOf("load_callback")) = 1
    /\ Cardinality(CallsOf("finishTrial")) = 1
    /\ \A f \in CallsOf("finishTrial") :
         /\ \A l \in CallsOf("load_callback") : l < f
         /\ \E e \in CallsOf("ensureSimulationDataConsistency") : e < f
    /\ display = <<>> /\ buttonGroupElement = Null /\ start_time = Null
    /\ ~stimulusElement.responded /\ calls = <<>>
    /\ ~keyboardListener.defined /\ ~keyboardListener.registered
    /\ timers = {} /\ simulation.pressKey = Null
    /\ \A i \in DOMAIN apiCalls :
         apiCalls[i] \notin {"getKeyboardResponse", "setTimeout:enable_buttons",
                             "setTimeout:hide_stimulus", "setTimeout:end_trial",
                             "pressKey"}

C15_Witness ==
  /\ DataOnly
  /\ finished # <<>> /\ finished[1].rt # Null /\ finished[1].response # Null
  /\ trial.trial_duration # Null
  /\ trial.stimulus_duration # Null
  /\ now = MaxTime

\* simulate() ran in mode "visual"
Visual == simulation.mode = "visual"

(* C16: a "visual" simulation injects the synthesized key press only when  *)
(* the synthesized rt is not null; when it is null no response is          *)
(* delivered and only trial_duration ends the trial; when the injected key *)
(* is accepted and response_ends_trial is true, exactly one result is      *)
(* handed over and its response is the injected key.                       *)
C16_VisualInjects ==
  Visual =>
    LET data == Val(simulation.data) IN
    /\ data.rt = Null =>
         /\ simulation.pressKey = Null
         /\ CallsOf("pressKey") = {}
         /\ calls = <<>>
         /\ finished # <<>> => trial.trial_duration # Null
    /\ (data.rt # Null /\ pc = "running") => Cardinality(CallsOf("pressKey")) = 1
    /\ (calls # <<>> /\ trial.response_ends_trial) =>
         /\ Len(finished) = 1
         /\ finished[1].response = data.response

(* C17: once a response, key press or click, was delivered, the keyboard   *)
(* listener is no longer registered, and after_response does not run a     *)
(* second time.                                                            *)
C17_ListenerOffAfterResponse ==
  calls # <<>> => ~keyboardListener.registered /\ Len(calls) = 1

\* the decimal numeral of a zero-based button index
Numeral(n) == <<"0", "1", "2", "3", "4">>[n + 1]

LeastCover(n, d) == CHOOSE c \in 0..n : c * d >= n /\ (c - 1) * d < n

\* exactly one of grid_rows and grid_columns is null
OneGridNull(t) == (t.grid_rows = Null) # (t.grid_columns = Null)

(* C19: in grid layout the rendered grid has grid_columns columns if that  *)
(* is non-null and otherwise the least number of columns that holds the    *)
(* choices in grid_rows rows, and symmetrically for the rows; when exactly *)
(* one of the two is null the grid has at least as many cells as choices.  *)
C19_GridCoversChoices ==
  (pc = "running" /\ buttonGroupElement # Null /\ trial.button_layout = "grid") =>
    LET n == Len(trial.choices.keys)
        cols == Val(Val(buttonGroupElement).gridTemplateColumns)
        rows == Val(Val(buttonGroupElement).gridTemplateRows)
    IN /\ cols = IF trial.grid_columns # Null THEN Val(trial.grid_columns)
                 ELSE LeastCover(n, Val(trial.grid_rows))
       /\ rows = IF trial.grid_rows # Null THEN Val(trial.grid_rows)
                 ELSE LeastCover(n, Val(trial.grid_columns))
       /\ OneGridNull(trial) => rows * cols >= n

C19_Witness ==
  /\ pc = "running"
  /\ Len(trial.choices.keys) = 3
  /\ trial.grid_rows = Some(2) /\ trial.grid_columns = Null
  /\ Val(buttonGroupElement).gridTemplateColumns = Some(2)
  /\ Val(buttonGroupElement).gridTemplateRows = Some(2)

(* C20: in every state response.key is null iff response.rt is null iff   *)
(* the stimulus element lacks the class 'responded'; no result handed over *)
(* has a response without an rt or an rt without a response.               *)
C20_IndicatorsAgree ==
  /\ (response.key = Null) <=> (response.rt = Null)
  /\ (response.key = Null) <=> ~stimulusElement.responded
  /\ \A i \in DOMAIN finished :
       (finished[i].response = Null) <=> (finished[i].rt = Null)

C20_Witness ==
  /\ calls # <<>> /\ calls[1].rt = Null
  /\ response.key # Null /\ response.rt # Null
  /\ stimulusElement.responded
  /\ finished # <<>> /\ finished[1].response = response.key
  /\ finished[1].rt # Null

(* C21: once a response was delivered and until a result is handed over,   *)
(* no rendered button can be clicked, also after the button-enable timer   *)
(* has fired; hence no click is delivered after the first response.        *)
C21_ButtonsStayDisabled ==
  /\ []((calls # <<>> /\ finished = <<>> /\ buttonGroupElement # Null) =>
          \A i \in DOMAIN Val(buttonGroupElement).children :
            ~Clickable(Val(buttonGroupElement).children[i]))
  /\ [][(clicks' = clicks + 1 /\ finished = <<>>) => calls = <<>>]_vars

====
